---- MODULE Spec2Model ----
(***************************************************************************)
(* Model of the paged file manager of the `database` crate                 *)
(* (src/database/src/lib.rs): the page codec working on byte buffers, the  *)
(* buffer pool and the operations of PagedFileManager on one backing file. *)
(* A byte buffer is a sequence of numbers 0..255; a Rust offset o (0-based)*)
(* is element o + 1 of the sequence.  A call that panics is recorded with  *)
(* status "panic", a call that returns Err with status "io_error".         *)
(***************************************************************************)
EXTENDS Integers, Sequences, FiniteSets, TLC

VARIABLES
    file,            \* bytes of the backing file
    opened,          \* TRUE while a PagedFileManager value exists
    page_size,       \* PagedFileManager.page_size
    max_cache_size,  \* PagedFileManager.max_cache_size
    buffer_pool,     \* PagedFileManager.buffer_pool: page id -> bytes
    last,            \* the last call: [op, arg, status, value]
    io,              \* the file transfers of the last call: [kind, offset, len]
    created_page_size, \* page_size the file was created with (0: it began empty)
    allocs,          \* successful allocate_page calls on a file that began empty
    writes,          \* write_page calls made by the caller
    threads,         \* SpecShared: each thread's call in progress and its locals
    handles          \* SpecShared: each manager's file handle, mutex and pool

vars == <<file, opened, page_size, max_cache_size, buffer_pool, last, io,
          created_page_size, allocs, writes, threads, handles>>

-----------------------------------------------------------------------------
(* Bounds of the model *)

MaxPageId == 3        \* page ids (and so file sizes) the model follows
MaxWrites == 1        \* write_page calls of the caller the model follows
MaxInitPages == 2     \* pages of a file that exists before the program runs

(* Program constants *)

DB_VERSION == 1
DEFAULT_PAGE_SIZE == 4096
METADATA_PAGE_ID == 0
DEFAULT_MAX_CACHE_SIZE == 100

-----------------------------------------------------------------------------
(* Bytes *)

Zeros(n) == [i \in 1..n |-> 0]

Max(a, b) == IF a >= b THEN a ELSE b

RECURSIVE to_be_bytes(_, _)
\* n.to_be_bytes() for an unsigned integer of `width` bytes
to_be_bytes(n, width) ==
    IF width = 0 THEN <<>>
    ELSE to_be_bytes(n \div 256, width - 1) \o <<n % 256>>

RECURSIVE from_be_bytes(_)
\* uN::from_be_bytes(bytes)
from_be_bytes(bytes) ==
    IF bytes = <<>> THEN 0
    ELSE from_be_bytes(SubSeq(bytes, 1, Len(bytes) - 1)) * 256 + bytes[Len(bytes)]

\* buffer[start..end] of a slice: panics when start > end or end > len
SliceOk(buffer, start, end) == start <= end /\ end <= Len(buffer)
Slice(buffer, start, end) == SubSeq(buffer, start + 1, end)

\* buffer[start..end].copy_from_slice(src): panics on a bad range or when the
\* lengths differ
CopyOk(buffer, start, end, src) ==
    SliceOk(buffer, start, end) /\ Len(src) = end - start
copy_from_slice(buffer, start, end, src) ==
    SubSeq(buffer, 1, start) \o src \o SubSeq(buffer, end + 1, Len(buffer))

-----------------------------------------------------------------------------
(* Alignment helpers, lib.rs:726-755 *)

\* padding that never sees an offset as aligned already
gen_padding_always(alignment, remainder) == alignment - remainder

\* gen_padding, lib.rs:749-755
gen_padding(alignment, remainder) ==
    IF remainder = 0 THEN 0 ELSE alignment - remainder

padding_needed_from_size(offset, next_size) ==
    LET alignment ==
            IF next_size = 0 THEN 1
            ELSE IF next_size = 1 THEN 1
            ELSE IF next_size = 2 THEN 2
            ELSE IF next_size <= 4 THEN 4
            ELSE IF next_size <= 8 THEN 8
            ELSE 16
    IN  gen_padding(alignment, offset % alignment)

\* padding_needed_from_type::<T>(offset), given align_of::<T>()
padding_needed_from_type(align_of_T, offset) ==
    gen_padding(align_of_T, offset % align_of_T)

RECURSIVE place_fields(_, _, _)
\* the offsets of fields of the given sizes placed one after the other from
\* `offset` on as the serializers place them, lib.rs:347-354: pad for the
\* field, place it, step over it
place_fields(sizes, i, offset) ==
    IF i > Len(sizes) THEN <<>>
    ELSE LET at == offset + padding_needed_from_size(offset, sizes[i])
         IN  <<at>> \o place_fields(sizes, i + 1, at + sizes[i])

-----------------------------------------------------------------------------
(* Layout derived by #[derive(StructLayout)] for a #[repr(C)] struct: the     *)
(* field sizes are size_of of the field types, the offsets are those of      *)
(* memoffset::offset_of!, the size is size_of of the struct.                 *)

size_of_u8 == 1
size_of_u32 == 4
size_of_u64 == 8
size_of_usize == 8
size_of_bool == 1
size_of_PageType == 1

RECURSIVE OffsetOf(_, _)
\* offset of field k (1-based) of a repr(C) struct whose fields have the given
\* sizes (every field here has its size as its alignment)
OffsetOf(sizes, k) ==
    IF k = 1 THEN 0
    ELSE LET end == OffsetOf(sizes, k - 1) + sizes[k - 1]
         IN  end + gen_padding(sizes[k], end % sizes[k])

RECURSIVE MaxOf(_)
MaxOf(sizes) ==
    IF Len(sizes) = 1 THEN sizes[1]
    ELSE Max(sizes[1], MaxOf(Tail(sizes)))

\* std::mem::size_of of the struct: the end of the last field, padded to the
\* largest alignment
SizeOfStruct(sizes) ==
    LET n == Len(sizes)
        end == OffsetOf(sizes, n) + sizes[n]
    IN  end + gen_padding(MaxOf(sizes), end % MaxOf(sizes))

SpanStart(sizes, k) == OffsetOf(sizes, k)
SpanEnd(sizes, k) == OffsetOf(sizes, k) + sizes[k]

\* PageHeader { page_id: u64, page_type: PageType, checksum: u32, lsn: u64,
\*              free_space_pointer: u32 }
PageHeaderFields ==
    <<size_of_u64, size_of_PageType, size_of_u32, size_of_u64, size_of_u32>>
PageHeader_SIZE == SizeOfStruct(PageHeaderFields)

\* MetadataPage { db_version: u32, page_size: u32, root_page_id: u64,
\*                first_free_list_page: u64, total_pages: u64 }
MetadataPageFields ==
    <<size_of_u32, size_of_u32, size_of_u64, size_of_u64, size_of_u64>>
MetadataPage_SIZE == SizeOfStruct(MetadataPageFields)
align_of_MetadataPage == MaxOf(MetadataPageFields)

\* DataPage { num_records: u32, slot_array: Vec<u32> }: the leading primitive
DataPageFields == <<size_of_u32>>
\* IndexPage { is_leaf: bool, next_leaf: u64, keys, child_pointers }
IndexPageFields == <<size_of_bool, size_of_u64>>

-----------------------------------------------------------------------------
(* Page types, lib.rs:47-86 *)

PageTypes == {"Metadata", "Data", "Index", "Overflow", "FreeList"}

\* the discriminant of the enum, `*self as u8`
PageTypeTag(t) ==
    CASE t = "Metadata" -> 0
      [] t = "Data" -> 1
      [] t = "Index" -> 2
      [] t = "Overflow" -> 3
      [] t = "FreeList" -> 4

PageType_to_be_bytes(t) == to_be_bytes(PageTypeTag(t), size_of_u8)

\* PageType::from_be_bytes: "panic" stands for panic!("Can't convert from bytes")
PageType_from_be_bytes(bytes) ==
    LET tag == from_be_bytes(bytes)
    IN  IF \E t \in PageTypes : PageTypeTag(t) = tag
        THEN CHOOSE t \in PageTypes : PageTypeTag(t) = tag
        ELSE "panic"

\* impl From<u16> for PageType, lib.rs:75-86
PageType_from(value) ==
    CASE value = 0 -> "Metadata"
      [] value = 1 -> "Data"
      [] value = 2 -> "Index"
      [] value = 3 -> "Overflow"
      [] value = 4 -> "FreeList"
      [] OTHER -> "Data"

-----------------------------------------------------------------------------
(* PageHeader, lib.rs:99-183.  A serialize result is                          *)
(* [panic, buffer, ret]: whether the call panicked, the buffer afterwards and *)
(* the returned count.                                                        *)

Panicked(buffer) == [panic |-> TRUE, buffer |-> buffer, ret |-> 0]
Returned(buffer, ret) == [panic |-> FALSE, buffer |-> buffer, ret |-> ret]

\* buffer[Self::<field k>_span()].copy_from_slice(bytes)
WriteField(buffer, sizes, k, bytes) ==
    copy_from_slice(buffer, SpanStart(sizes, k), SpanEnd(sizes, k), bytes)
\* a read of every field at the start of the buffer
ReadFieldAtStart(buffer, sizes, k) == Slice(buffer, 0, sizes[k])

\* &buffer[Self::<field k>_span()]
ReadField(buffer, sizes, k) ==
    Slice(buffer, SpanStart(sizes, k), SpanEnd(sizes, k))

PageHeader_new(page_id, page_type) ==
    [page_id |-> page_id, page_type |-> page_type, checksum |-> 0, lsn |-> 0,
     free_space_pointer |-> PageHeader_SIZE]

\* PageHeader::size(): the end of the last field, without the trailing padding
PageHeader_size == SpanEnd(PageHeaderFields, 5)

PageHeader_serialize(h, buffer) ==
    LET size_to_write == SpanEnd(PageHeaderFields, 5)
        b1 == WriteField(buffer, PageHeaderFields, 1,
                         to_be_bytes(h.page_id, size_of_u64))
        b2 == WriteField(b1, PageHeaderFields, 2, PageType_to_be_bytes(h.page_type))
        b3 == WriteField(b2, PageHeaderFields, 3,
                         to_be_bytes(h.checksum, size_of_u32))
        b4 == WriteField(b3, PageHeaderFields, 4, to_be_bytes(h.lsn, size_of_u64))
        b5 == WriteField(b4, PageHeaderFields, 5,
                         to_be_bytes(h.free_space_pointer, size_of_u32))
    IN  IF Len(buffer) < size_to_write THEN Panicked(buffer)
        ELSE Returned(b5, size_to_write)

\* PageHeader::deserialize: [panic |-> TRUE] for a short buffer or a page type
\* tag that from_be_bytes rejects, the header otherwise
PageHeader_deserialize(buffer) ==
    LET size_to_read == SpanEnd(PageHeaderFields, 5)
        page_type == PageType_from_be_bytes(ReadField(buffer, PageHeaderFields, 2))
    IN  IF Len(buffer) < size_to_read THEN [panic |-> TRUE]
        ELSE IF page_type = "panic" THEN [panic |-> TRUE]
        ELSE [panic |-> FALSE,
              page_id |-> from_be_bytes(ReadField(buffer, PageHeaderFields, 1)),
              page_type |-> page_type,
              checksum |-> from_be_bytes(ReadField(buffer, PageHeaderFields, 3)),
              lsn |-> from_be_bytes(ReadField(buffer, PageHeaderFields, 4)),
              free_space_pointer |->
                  from_be_bytes(ReadField(buffer, PageHeaderFields, 5))]

-----------------------------------------------------------------------------
(* MetadataPage, lib.rs:185-240 *)

MetadataPage_intial_page(ps) ==
    [db_version |-> DB_VERSION, page_size |-> ps, root_page_id |-> 0,
     first_free_list_page |-> 0, total_pages |-> 1]

MetadataPage_serialize(m, buffer) ==
    LET size_to_write == SpanEnd(MetadataPageFields, 5)
        b1 == WriteField(buffer, MetadataPageFields, 1,
                         to_be_bytes(m.db_version, size_of_u32))
        b2 == WriteField(b1, MetadataPageFields, 2,
                         to_be_bytes(m.page_size, size_of_u32))
        b3 == WriteField(b2, MetadataPageFields, 3,
                         to_be_bytes(m.root_page_id, size_of_u64))
        b4 == WriteField(b3, MetadataPageFields, 4,
                         to_be_bytes(m.first_free_list_page, size_of_u64))
        b5 == WriteField(b4, MetadataPageFields, 5,
                         to_be_bytes(m.total_pages, size_of_u64))
    IN  IF Len(buffer) < size_to_write THEN Panicked(buffer)
        ELSE Returned(b5, size_to_write)

\* PageWindow::new: panics on fewer than PageHeader::SIZE bytes, else splits the
\* bytes at PageHeader::SIZE
PageWindow_new_ok(bytes) == Len(bytes) >= PageHeader_SIZE
PageWindow_page_bytes(bytes) == SubSeq(bytes, PageHeader_SIZE + 1, Len(bytes))

\* PageWindow<MetadataPage>::read_total_pages on the window of `bytes`: the
\* slice page_bytes[total_pages_span()] panics when page_bytes is too short
read_total_pages_ok(bytes) ==
    SliceOk(PageWindow_page_bytes(bytes), SpanStart(MetadataPageFields, 5),
            SpanEnd(MetadataPageFields, 5))
read_total_pages(bytes) ==
    from_be_bytes(ReadField(PageWindow_page_bytes(bytes), MetadataPageFields, 5))

\* PageWindow<MetadataPage>::update_total_pages: the whole page afterwards
update_total_pages(bytes, new_total_pages) ==
    SubSeq(bytes, 1, PageHeader_SIZE)
        \o WriteField(PageWindow_page_bytes(bytes), MetadataPageFields, 5,
                      to_be_bytes(new_total_pages, size_of_u64))

-----------------------------------------------------------------------------
(* DataPage, lib.rs:242-308 *)

DataPage_SLOT_ARRAY_LEN_SIZE == size_of_u32
DataPage_SLOT_ARRAY_VALUE_SIZE == size_of_u32
DataPage_SLOT_ARRAY_LEN_OFFSET ==
    SpanStart(DataPageFields, 1) + DataPageFields[1]
DataPage_SLOT_ARRAY_FIRST_VALUE_OFFSET ==
    padding_needed_from_type(size_of_u32,
        DataPage_SLOT_ARRAY_LEN_OFFSET + DataPage_SLOT_ARRAY_LEN_SIZE)
    + DataPage_SLOT_ARRAY_LEN_OFFSET + DataPage_SLOT_ARRAY_LEN_SIZE
DataPage_MIN_SIZE == DataPage_SLOT_ARRAY_FIRST_VALUE_OFFSET

DataPage_new == [num_records |-> 0, slot_array |-> <<>>]

\* a size that leaves the slots out
DataPage_size_without_slots(dp) == DataPage_MIN_SIZE

\* DataPage::size, lib.rs:298-300
DataPage_size(dp) ==
    DataPage_MIN_SIZE + DataPage_SLOT_ARRAY_VALUE_SIZE * Len(dp.slot_array)

RECURSIVE WriteSlots(_, _, _, _)
\* the loop over slot_array: [buffer, offset] after the slots from index i on
WriteSlots(buffer, slots, i, current_offset) ==
    IF i > Len(slots) THEN [buffer |-> buffer, offset |-> current_offset]
    ELSE WriteSlots(
            copy_from_slice(buffer, current_offset,
                            current_offset + DataPage_SLOT_ARRAY_VALUE_SIZE,
                            to_be_bytes(slots[i], size_of_u32)),
            slots, i + 1, current_offset + DataPage_SLOT_ARRAY_VALUE_SIZE)

DataPage_serialize(dp, buffer) ==
    LET size == DataPage_size(dp)
        b1 == WriteField(buffer, DataPageFields, 1,
                         to_be_bytes(dp.num_records, size_of_u32))
        b2 == copy_from_slice(b1, DataPage_SLOT_ARRAY_LEN_OFFSET,
                  DataPage_SLOT_ARRAY_LEN_OFFSET + DataPage_SLOT_ARRAY_LEN_SIZE,
                  to_be_bytes(Len(dp.slot_array), size_of_u32))
        w == WriteSlots(b2, dp.slot_array, 1, DataPage_SLOT_ARRAY_FIRST_VALUE_OFFSET)
    IN  IF Len(buffer) < size THEN Panicked(buffer)
        ELSE IF size # w.offset THEN Panicked(w.buffer)
        ELSE Returned(w.buffer, size)

-----------------------------------------------------------------------------
(* IndexPage, lib.rs:310-450 *)

IndexPage_KEYS_LEN_SIZE == size_of_u32
IndexPage_CHILD_POINTERS_LEN_SIZE == size_of_u32
IndexPage_CHILD_POINTERS_VALUE_SIZE == size_of_u64
IndexPage_NEXT_LEAF_OFFSET == SpanStart(IndexPageFields, 2)
IndexPage_NEXT_LEAF_SIZE == IndexPageFields[2]
IndexPage_KEYS_LEN_OFFSET ==
    padding_needed_from_type(size_of_u32,
        IndexPage_NEXT_LEAF_OFFSET + IndexPage_NEXT_LEAF_SIZE)
    + IndexPage_NEXT_LEAF_OFFSET + IndexPage_NEXT_LEAF_SIZE
IndexPage_KEYS_FIRST_VALUE_OFFSET_WITHOUT_PADDING ==
    IndexPage_KEYS_LEN_OFFSET + IndexPage_KEYS_LEN_SIZE
IndexPage_EXCLUDING_VEC_SIZE == IndexPage_KEYS_LEN_OFFSET

IndexPage_new(is_leaf) ==
    [is_leaf |-> is_leaf, next_leaf |-> 0, keys |-> <<>>, child_pointers |-> <<>>]

\* key_value_size: -1 stands for None
key_value_size(ip) == IF ip.keys = <<>> THEN -1 ELSE Len(ip.keys[1])

calc_size(ip) ==
    LET key_size == key_value_size(ip)
        size_of_key_vec ==
            IF key_size = -1 THEN 0
            ELSE key_size * Len(ip.keys)
                 + padding_needed_from_size(IndexPage_EXCLUDING_VEC_SIZE, key_size)
                 + padding_needed_from_size(key_size, key_size) * (Len(ip.keys) - 1)
        offset_after_key_vec == IndexPage_EXCLUDING_VEC_SIZE + size_of_key_vec
        offset_after_child_pointers_key_len ==
            padding_needed_from_type(size_of_u32, offset_after_key_vec)
            + offset_after_key_vec + IndexPage_CHILD_POINTERS_LEN_SIZE
        padding_to_first_child_pointer ==
            padding_needed_from_type(size_of_u64, offset_after_child_pointers_key_len)
    IN  offset_after_child_pointers_key_len + padding_to_first_child_pointer
        + IndexPage_CHILD_POINTERS_VALUE_SIZE * Len(ip.child_pointers)

RECURSIVE WriteKeys(_, _, _, _, _)
\* the loop over keys: [panic, buffer, offset] after the keys from index i on
WriteKeys(buffer, keys, i, current_key_offset, key_size) ==
    IF i > Len(keys)
    THEN [panic |-> FALSE, buffer |-> buffer, offset |-> current_key_offset]
    ELSE LET at == current_key_offset
                   + padding_needed_from_size(current_key_offset, key_size)
         IN  IF key_size # Len(keys[i]) \/ ~CopyOk(buffer, at, at + key_size, keys[i])
             THEN [panic |-> TRUE, buffer |-> buffer, offset |-> current_key_offset]
             ELSE WriteKeys(copy_from_slice(buffer, at, at + key_size, keys[i]),
                            keys, i + 1, at + key_size, key_size)

RECURSIVE WriteChildPointers(_, _, _, _)
WriteChildPointers(buffer, pointers, i, offset) ==
    IF i > Len(pointers) THEN [panic |-> FALSE, buffer |-> buffer, offset |-> offset]
    ELSE IF ~SliceOk(buffer, offset, offset + IndexPage_CHILD_POINTERS_VALUE_SIZE)
    THEN [panic |-> TRUE, buffer |-> buffer, offset |-> offset]
    ELSE WriteChildPointers(
            copy_from_slice(buffer, offset,
                            offset + IndexPage_CHILD_POINTERS_VALUE_SIZE,
                            to_be_bytes(pointers[i], size_of_u64)),
            pointers, i + 1, offset + IndexPage_CHILD_POINTERS_VALUE_SIZE)

\* the part of IndexPage::serialize after the key count has been written
IndexPage_serialize_tail(ip, size, buffer) ==
    LET k == WriteKeys(buffer, ip.keys, 1,
                       IndexPage_KEYS_FIRST_VALUE_OFFSET_WITHOUT_PADDING,
                       key_value_size(ip))
        len_offset == k.offset + padding_needed_from_type(size_of_u32, k.offset)
        len_bytes == to_be_bytes(Len(ip.child_pointers), size_of_usize)
        b1 == copy_from_slice(k.buffer, len_offset,
                              len_offset + IndexPage_CHILD_POINTERS_LEN_SIZE, len_bytes)
        first == len_offset + IndexPage_CHILD_POINTERS_LEN_SIZE
        c == WriteChildPointers(b1, ip.child_pointers, 1,
                 first + padding_needed_from_type(size_of_u64, first))
    IN  IF k.panic THEN Panicked(k.buffer)
        ELSE IF ~CopyOk(k.buffer, len_offset,
                        len_offset + IndexPage_CHILD_POINTERS_LEN_SIZE, len_bytes)
        THEN Panicked(k.buffer)
        ELSE IF c.panic \/ size # c.offset THEN Panicked(c.buffer)
        ELSE Returned(c.buffer, size)

\* the range and the source of the key-count write, lib.rs:339-340
KeysLenRange == <<IndexPage_KEYS_LEN_OFFSET, IndexPage_KEYS_LEN_SIZE>>
KeysLenBytes(ip) == to_be_bytes(Len(ip.keys), size_of_usize)

IndexPage_serialize(ip, buffer) ==
    LET size == calc_size(ip)
        b1 == WriteField(buffer, IndexPageFields, 1,
                         IF ip.is_leaf THEN <<1>> ELSE <<0>>)
        b2 == WriteField(b1, IndexPageFields, 2,
                         to_be_bytes(ip.next_leaf, size_of_u64))
    IN  IF Len(buffer) < size THEN Panicked(buffer)
        ELSE IF ~CopyOk(b2, KeysLenRange[1], KeysLenRange[2], KeysLenBytes(ip))
        THEN Panicked(b2)
        ELSE IndexPage_serialize_tail(ip, size,
                 copy_from_slice(b2, KeysLenRange[1], KeysLenRange[2],
                                 KeysLenBytes(ip)))

-----------------------------------------------------------------------------
(* FreeListPage, lib.rs:452-501 *)

\* FreeListPage { next_free_list: u64, free_page_ids: Vec<u64> }: the leading
\* primitive
FreeListPageFields == <<size_of_u64>>

FreeListPage_FREE_PAGE_IDS_LEN_SIZE == size_of_u32
FreeListPage_FREE_PAGE_IDS_VALUE_SIZE == size_of_u64
FreeListPage_FREE_PAGE_IDS_LEN_OFFSET ==
    SpanStart(FreeListPageFields, 1) + FreeListPageFields[1]
FreeListPage_FREE_PAGE_IDS_FIRST_VALUE_OFFSET ==
    padding_needed_from_type(size_of_u64,
        FreeListPage_FREE_PAGE_IDS_LEN_OFFSET + FreeListPage_FREE_PAGE_IDS_LEN_SIZE)
    + FreeListPage_FREE_PAGE_IDS_LEN_OFFSET + FreeListPage_FREE_PAGE_IDS_LEN_SIZE
FreeListPage_MIN_SIZE == FreeListPage_FREE_PAGE_IDS_FIRST_VALUE_OFFSET

RECURSIVE WriteFreePageIds(_, _, _, _)
\* the loop over free_page_ids: [buffer, offset] after the ids from index i on
WriteFreePageIds(buffer, ids, i, free_page_id_offset) ==
    IF i > Len(ids) THEN [buffer |-> buffer, offset |-> free_page_id_offset]
    ELSE WriteFreePageIds(
            copy_from_slice(buffer, free_page_id_offset,
                free_page_id_offset + FreeListPage_FREE_PAGE_IDS_VALUE_SIZE,
                to_be_bytes(ids[i], size_of_u64)),
            ids, i + 1,
            free_page_id_offset + FreeListPage_FREE_PAGE_IDS_VALUE_SIZE)

\* the source of the id-count write, lib.rs:490: the bytes of a usize
FreePageIdsLenBytes(fl) == to_be_bytes(Len(fl.free_page_ids), size_of_usize)

FreeListPage_serialize(fl, buffer) ==
    LET size_to_write ==
            FreeListPage_MIN_SIZE
            + FreeListPage_FREE_PAGE_IDS_VALUE_SIZE * Len(fl.free_page_ids)
        len_end == FreeListPage_FREE_PAGE_IDS_LEN_OFFSET
                   + FreeListPage_FREE_PAGE_IDS_LEN_SIZE
        b1 == WriteField(buffer, FreeListPageFields, 1,
                         to_be_bytes(fl.next_free_list, size_of_u64))
        b2 == copy_from_slice(b1, FreeListPage_FREE_PAGE_IDS_LEN_OFFSET, len_end,
                              FreePageIdsLenBytes(fl))
        w == WriteFreePageIds(b2, fl.free_page_ids, 1,
                              FreeListPage_FREE_PAGE_IDS_FIRST_VALUE_OFFSET)
    IN  IF Len(buffer) < size_to_write THEN Panicked(buffer)
        ELSE IF ~CopyOk(b1, FreeListPage_FREE_PAGE_IDS_LEN_OFFSET, len_end,
                        FreePageIdsLenBytes(fl))
        THEN Panicked(b1)
        ELSE IF size_to_write # w.offset THEN Panicked(w.buffer)
        ELSE Returned(w.buffer, size_to_write)

-----------------------------------------------------------------------------
(* The backing file and the buffer pool *)

\* file.seek(SeekFrom::Start(offset)); file.write_all(data): a write past the
\* end leaves a zero-filled hole before it
FileWrite(f, offset, data) ==
    IF offset >= Len(f) THEN f \o Zeros(offset - Len(f)) \o data
    ELSE SubSeq(f, 1, offset) \o data \o SubSeq(f, offset + Len(data) + 1, Len(f))

Transfer(kind, offset, len) == [kind |-> kind, offset |-> offset, len |-> len]

\* PagedFileManager::read_page: read_exact fails on a short file
read_page(f, page_id, ps) ==
    LET offset == page_id * ps
    IN  IF offset + ps <= Len(f)
        THEN [ok |-> TRUE, data |-> SubSeq(f, offset + 1, offset + ps)]
        ELSE [ok |-> FALSE, data |-> <<>>]

EmptyPool == [id \in {} |-> <<>>]
PoolInsert(cache, page_id, data) ==
    [id \in DOMAIN cache \cup {page_id} |-> IF id = page_id THEN data ELSE cache[id]]
\* an eviction that removes nothing
PoolRemoveNothing(cache, key) == cache

\* cache.remove(&key), lib.rs:651
PoolRemove(cache, key) == [id \in DOMAIN cache \ {key} |-> cache[id]]

\* load_into_buffer_pool on a miss, given the loader's bytes: the caches it can
\* leave (cache.keys().next() is any key of the map)
load_into_buffer_pool(cache, max_size, page_id, page_data) ==
    IF Cardinality(DOMAIN cache) >= max_size /\ DOMAIN cache # {}
    THEN {PoolInsert(PoolRemove(cache, key), page_id, page_data) : key \in DOMAIN cache}
    ELSE {PoolInsert(cache, page_id, page_data)}

\* what mem::take leaves behind: Vec::default()
mem_take_residue == <<>>

\* a new_page_id that reuses the page count as the id
NewPageIdSame(total_pages) == total_pages

\* new_page_id, lib.rs:610
NewPageId(total_pages) == total_pages + 1

\* The outcome of a call: its status, the value returned, and the file, the
\* pool and the transfers it leaves
Outcome(status, value, f, cache, transfers) ==
    [status |-> status, value |-> value, file |-> f, pool |-> cache, io |-> transfers]

\* allocate_page once the Metadata page is in the cache
allocate_page_loaded(f, cache, ps, transfers) ==
    LET page_bytes == cache[METADATA_PAGE_ID]
        new_page_id == NewPageId(read_total_pages(page_bytes))
        to_write == update_total_pages(page_bytes, new_page_id)
        empty_page == Zeros(ps)
        f1 == FileWrite(f, METADATA_PAGE_ID * ps, to_write)
        f2 == FileWrite(f1, new_page_id * ps, empty_page)
    IN  IF ~PageWindow_new_ok(page_bytes) \/ ~read_total_pages_ok(page_bytes)
        THEN Outcome("panic", 0, f, cache, transfers)
        ELSE Outcome("ok", new_page_id, f2,
                     [cache EXCEPT ![METADATA_PAGE_ID] = mem_take_residue],
                     transfers
                       \o <<Transfer("write", METADATA_PAGE_ID * ps, Len(to_write)),
                            Transfer("write", new_page_id * ps, Len(empty_page))>>)

\* PagedFileManager::allocate_page: the outcomes it can have
allocate_page(f, cache, ps, max_size) ==
    LET loaded == read_page(f, METADATA_PAGE_ID, ps)
        rd == <<Transfer("read", METADATA_PAGE_ID * ps, ps)>>
    IN  IF METADATA_PAGE_ID \in DOMAIN cache
        THEN {allocate_page_loaded(f, cache, ps, <<>>)}
        ELSE IF ~loaded.ok THEN {Outcome("io_error", 0, f, cache, rd)}
        ELSE {allocate_page_loaded(f, c, ps, rd) :
                c \in load_into_buffer_pool(cache, max_size, METADATA_PAGE_ID,
                                            loaded.data)}

\* PagedFileManager::write_page after a call with outcome a
write_page(a, ps, page_id, data) ==
    Outcome("ok", a.value, FileWrite(a.file, page_id * ps, data), a.pool,
            a.io \o <<Transfer("write", page_id * ps, Len(data))>>)

\* &mut page_buffer[offset..]: panics when offset is past the end
TailOk(buffer, offset) == offset <= Len(buffer)
TailOf(buffer, offset) == SubSeq(buffer, offset + 1, Len(buffer))

\* initialize_file: [panic, file]
initialize_file(f, ps) ==
    LET page_buffer == Zeros(ps)
        header == PageHeader_new(METADATA_PAGE_ID, "Metadata")
        hs == PageHeader_serialize(header, page_buffer)
        end_of_header == hs.ret
        metadata_offset == padding_needed_from_type(align_of_MetadataPage, end_of_header)
        metadata_page == MetadataPage_intial_page(ps)
        ms == MetadataPage_serialize(metadata_page, TailOf(hs.buffer, metadata_offset))
    IN  IF hs.panic THEN [panic |-> TRUE, file |-> f]
        ELSE IF metadata_offset # PageHeader_SIZE THEN [panic |-> TRUE, file |-> f]
        ELSE IF ~TailOk(hs.buffer, metadata_offset) \/ ms.panic
        THEN [panic |-> TRUE, file |-> f]
        ELSE [panic |-> FALSE,
              file |-> FileWrite(f, 0, SubSeq(hs.buffer, 1, metadata_offset) \o ms.buffer)]

\* the test of PagedFileManager::new that the file is new, lib.rs:566
NeedsInitialize(file_len) == file_len = 0

\* a manager that keeps the pool of the manager it replaces
StaleBufferPool == buffer_pool

\* HashMap::new(), lib.rs:560
NewBufferPool == EmptyPool

\* the rest of create_data_page after allocate_page had outcome a
create_data_page_body(a, ps) ==
    LET page_id == a.value
        page_buffer == Zeros(ps)
        data_page == DataPage_new
        data_page_offset ==
            PageHeader_size + padding_needed_from_type(size_of_u32, PageHeader_size)
        header == [PageHeader_new(page_id, "Data") EXCEPT
                      !.free_space_pointer = data_page_offset + DataPage_size(data_page)]
        hs == PageHeader_serialize(header, page_buffer)
        initial_offset == hs.ret
        offset_with_padding ==
            initial_offset + padding_needed_from_type(size_of_u32, initial_offset)
        ds == DataPage_serialize(data_page, TailOf(hs.buffer, offset_with_padding))
        final_offset == ds.ret
        panicked == Outcome("panic", 0, a.file, a.pool, a.io)
    IN  IF hs.panic \/ offset_with_padding # data_page_offset THEN panicked
        ELSE IF ~TailOk(hs.buffer, offset_with_padding) \/ ds.panic THEN panicked
        ELSE IF final_offset # header.free_space_pointer THEN panicked
        ELSE write_page(a, ps, page_id,
                        SubSeq(hs.buffer, 1, offset_with_padding) \o ds.buffer)

\* PagedFileManager::create_data_page: the outcomes it can have
create_data_page(f, cache, ps, max_size) ==
    {IF a.status = "ok" THEN create_data_page_body(a, ps) ELSE a :
        a \in allocate_page(f, cache, ps, max_size)}

\* the rest of create_index_page after allocate_page had outcome a
create_index_page_body(a, ps, is_leaf) ==
    LET page_id == a.value
        page_buffer == Zeros(ps)
        index_page == IndexPage_new(is_leaf)
        index_page_offset ==
            PageHeader_size + padding_needed_from_type(size_of_bool, PageHeader_size)
        header == [PageHeader_new(page_id, "Index") EXCEPT
                      !.free_space_pointer = index_page_offset + calc_size(index_page)]
        hs == PageHeader_serialize(header, page_buffer)
        initial_offset == hs.ret
        offset_with_padding ==
            initial_offset + padding_needed_from_type(size_of_bool, initial_offset)
        xs == IndexPage_serialize(index_page, TailOf(hs.buffer, offset_with_padding))
        final_size == xs.ret
        panicked == Outcome("panic", 0, a.file, a.pool, a.io)
    IN  IF hs.panic \/ offset_with_padding # index_page_offset THEN panicked
        ELSE IF ~TailOk(hs.buffer, offset_with_padding) \/ xs.panic THEN panicked
        ELSE IF final_size # header.free_space_pointer THEN panicked
        ELSE write_page(a, ps, page_id,
                        SubSeq(hs.buffer, 1, offset_with_padding) \o xs.buffer)

\* PagedFileManager::create_index_page: the outcomes it can have
create_index_page(f, cache, ps, max_size, is_leaf) ==
    {IF a.status = "ok" THEN create_index_page_body(a, ps, is_leaf) ELSE a :
        a \in allocate_page(f, cache, ps, max_size)}

-----------------------------------------------------------------------------
(* Inputs *)

\* the smallest page that holds the header and the Metadata body
MinPageSize == PageHeader_SIZE + MetadataPage_SIZE

\* PagedFileManagerConfig.page_size / max_cache_size
ConfigPageSizes == {MinPageSize, 2 * MinPageSize}
ConfigCacheSizes == {DEFAULT_MAX_CACHE_SIZE}

\* a page of ps bytes: the header, then `body` at offset body_offset
TypedPage(ps, header, body_offset, body) ==
    LET hs == PageHeader_serialize(header, Zeros(ps))
    IN  SubSeq(hs.buffer, 1, body_offset) \o body
            \o Zeros(ps - body_offset - Len(body))

\* page 0 of a file in the on-disk format: the header, and the Metadata body at
\* the header's padded end
MetadataPageBytes(ps, total_pages, first_free_list_page) ==
    LET m == [MetadataPage_intial_page(ps) EXCEPT
                 !.total_pages = total_pages,
                 !.first_free_list_page = first_free_list_page]
    IN  TypedPage(ps, PageHeader_new(METADATA_PAGE_ID, "Metadata"), PageHeader_SIZE,
                  MetadataPage_serialize(m, Zeros(MetadataPage_SIZE)).buffer)

\* an empty Data page with id page_id, laid out as create_data_page lays it out
DataPageBytes(ps, page_id) ==
    LET body_offset ==
            PageHeader_size + padding_needed_from_type(size_of_u32, PageHeader_size)
        dp == DataPage_new
    IN  TypedPage(ps,
                  [PageHeader_new(page_id, "Data") EXCEPT
                      !.free_space_pointer = body_offset + DataPage_size(dp)],
                  body_offset,
                  DataPage_serialize(dp, Zeros(DataPage_size(dp))).buffer)

\* an empty free-list page: its body (next_free_list 0, no ids) is all zero
FreeListPageBytes(ps, page_id) ==
    TypedPage(ps, PageHeader_new(page_id, "FreeList"), PageHeader_size, <<>>)

RECURSIVE Pages(_, _, _, _)
\* pages from..total_pages-1 of a file that exists before the program runs
Pages(ps, from, total_pages, first_free_list_page) ==
    IF from >= total_pages THEN <<>>
    ELSE (IF from = first_free_list_page THEN FreeListPageBytes(ps, from)
          ELSE DataPageBytes(ps, from))
         \o Pages(ps, from + 1, total_pages, first_free_list_page)

\* a file in the on-disk format with total_pages pages of ps bytes
well_formed_file(ps, total_pages, first_free_list_page) ==
    MetadataPageBytes(ps, total_pages, first_free_list_page)
        \o Pages(ps, 1, total_pages, first_free_list_page)

\* the byte vectors a caller passes to write_page: a short one, a page, and
\* one longer than a page
WriteData(ps, page_id) ==
    {to_be_bytes(page_id, size_of_u64),
     TypedPage(ps, PageHeader_new(page_id, "Overflow"), PageHeader_size, <<>>),
     TypedPage(ps, PageHeader_new(page_id, "Overflow"), PageHeader_size, <<>>)
         \o to_be_bytes(page_id, size_of_u64)}

-----------------------------------------------------------------------------
(* The state machine *)

Call(op, arg, status, value) ==
    [op |-> op, arg |-> arg, status |-> status, value |-> value]

\* the files that exist before the program runs: none (an empty file), or a
\* file in the on-disk format with pages of one of the given sizes
InitWith(sizes) ==
    /\ \E ps \in sizes, total_pages \in 0..MaxInitPages,
          first_free_list_page \in 0..1 :
          /\ first_free_list_page < total_pages \/ first_free_list_page = 0
          /\ file = IF total_pages = 0 THEN <<>>
                    ELSE well_formed_file(ps, total_pages, first_free_list_page)
          /\ created_page_size = IF total_pages = 0 THEN 0 ELSE ps
    /\ opened = FALSE
    /\ page_size = 0
    /\ max_cache_size = 0
    /\ buffer_pool = EmptyPool
    /\ last = Call("none", 0, "ok", 0)
    /\ io = <<>>
    /\ allocs = 0
    /\ writes = 0
    /\ threads = <<>>
    /\ handles = <<>>

\* PagedFileManager::new(path, config) with config.page_size among `sizes`; a
\* manager that was open is dropped
NewWith(sizes) ==
    \E ps \in sizes, max_size \in ConfigCacheSizes :
        LET init == IF NeedsInitialize(Len(file)) THEN initialize_file(file, ps)
                    ELSE [panic |-> FALSE, file |-> file]
        IN  /\ file' = init.file
            /\ opened' = ~init.panic
            /\ page_size' = IF init.panic THEN 0 ELSE ps
            /\ max_cache_size' = IF init.panic THEN 0 ELSE max_size
            /\ buffer_pool' = NewBufferPool
            /\ last' = Call("new", ps, IF init.panic THEN "panic" ELSE "ok", 0)
            /\ io' = IF NeedsInitialize(Len(file)) /\ ~init.panic
                     THEN <<Transfer("write", 0, Len(init.file))>> ELSE <<>>
            /\ UNCHANGED <<created_page_size, allocs, writes, threads, handles>>

\* the manager after a call with outcome o
Finish(op, arg, o, allocated) ==
    /\ file' = o.file
    /\ buffer_pool' = o.pool
    /\ last' = Call(op, arg, o.status, o.value)
    /\ io' = o.io
    /\ allocs' = IF allocated /\ created_page_size = 0 THEN allocs + 1 ELSE allocs
    /\ writes' = IF op = "write_page" THEN writes + 1 ELSE writes
    /\ UNCHANGED <<opened, page_size, max_cache_size, created_page_size,
                   threads, handles>>

\* the model follows page ids up to MaxPageId
InBounds(o) == o.status = "ok" => o.value <= MaxPageId

AllocatePage ==
    /\ opened
    /\ \E o \in allocate_page(file, buffer_pool, page_size, max_cache_size) :
          /\ InBounds(o)
          /\ Finish("allocate_page", 0, o, o.status = "ok")

CreateDataPage ==
    /\ opened
    /\ \E a \in allocate_page(file, buffer_pool, page_size, max_cache_size) :
          /\ InBounds(a)
          /\ Finish("create_data_page", 0,
                    IF a.status = "ok" THEN create_data_page_body(a, page_size) ELSE a,
                    a.status = "ok")

CreateIndexPage ==
    /\ opened
    /\ \E is_leaf \in BOOLEAN :
       \E a \in allocate_page(file, buffer_pool, page_size, max_cache_size) :
          /\ InBounds(a)
          /\ Finish("create_index_page", is_leaf,
                    IF a.status = "ok"
                    THEN create_index_page_body(a, page_size, is_leaf) ELSE a,
                    a.status = "ok")

WritePage ==
    /\ opened
    /\ writes < MaxWrites
    /\ \E page_id \in 0..MaxPageId :
       \E data \in WriteData(page_size, page_id) :
          Finish("write_page", page_id,
                 write_page(Outcome("ok", 0, file, buffer_pool, <<>>),
                            page_size, page_id, data),
                 FALSE)

Init == InitWith(ConfigPageSizes)
New == NewWith(ConfigPageSizes)
Next == New \/ AllocatePage \/ CreateDataPage \/ CreateIndexPage \/ WritePage

Spec == Init /\ [][Next]_vars

\* the same program run with the default page size only
InitDefault == InitWith({DEFAULT_PAGE_SIZE})
NewDefault == NewWith({DEFAULT_PAGE_SIZE})
NextDefault ==
    NewDefault \/ AllocatePage \/ CreateDataPage \/ CreateIndexPage \/ WritePage

SpecDefault == InitDefault /\ [][NextDefault]_vars

-----------------------------------------------------------------------------
(* What the claims read from a state *)

\* total_pages / first_free_list_page of the Metadata page on disk
DiskTotalPages(f) == read_total_pages(SubSeq(f, 1, MinPageSize))
DiskFirstFreeListPage(f) ==
    from_be_bytes(ReadField(PageWindow_page_bytes(SubSeq(f, 1, MinPageSize)),
                            MetadataPageFields, 4))

\* page i of file f, in pages of ps bytes
PageOf(f, ps, i) == SubSeq(f, i * ps + 1, (i + 1) * ps)

\* f is a file in the on-disk format with pages of ps bytes
WellFormed(f, ps) ==
    \E total_pages \in 1..MaxInitPages, first_free_list_page \in 0..1 :
        f = well_formed_file(ps, total_pages, first_free_list_page)

\* the offset of a Data / Index body in its page: the header's end, padded
DataBodyOffset ==
    PageHeader_size + padding_needed_from_type(size_of_u32, PageHeader_size)
IndexBodyOffset ==
    PageHeader_size + padding_needed_from_type(size_of_bool, PageHeader_size)

-----------------------------------------------------------------------------
(* Claims *)

\* C1: on a file that began empty and was opened with new, after N successful
\* allocate_page calls total_pages on disk is N + 1 and the file is exactly
\* N + 1 pages long.
C1_FreshFilePageCount ==
    (created_page_size = 0 /\ last.op # "none") =>
        /\ opened
        /\ Len(file) = (allocs + 1) * page_size
        /\ DiskTotalPages(file) = allocs + 1

\* C2: new on an empty file succeeds and leaves exactly one page: the header
\* (page_id 0, Metadata), then at the header's padded end the Metadata body with
\* total_pages 1 and the configured page_size.
C2_NewInitializesEmptyFile ==
    [][(last'.op = "new" /\ Len(file) = 0) =>
          /\ last'.status = "ok"
          /\ opened'
          /\ file' = MetadataPageBytes(page_size', 1, 0)]_vars

\* C3: new on a file that is not empty returns a manager, writes nothing (the
\* file is byte for byte the same) and starts with an empty buffer pool.
C3_NewLeavesExistingFile ==
    [][(last'.op = "new" /\ Len(file) > 0) =>
          /\ last'.status = "ok"
          /\ opened'
          /\ file' = file
          /\ io' = <<>>
          /\ buffer_pool' = EmptyPool]_vars

\* a manager reopened on the file after a caller's write_page
C3_Witness ==
    /\ last.op = "new" /\ last.status = "ok" /\ opened
    /\ Len(file) > 0 /\ writes > 0
    /\ buffer_pool = EmptyPool

\* C4: with total_pages = T on disk, a successful allocate_page returns T + 1,
\* leaves total_pages = T + 1 on disk, writes page_size zero bytes at offset
\* (T + 1) * page_size and leaves every other byte of page 0 (the header,
\* db_version, page_size, root_page_id, first_free_list_page) and of the pages
\* before the new one as it was, whatever first_free_list_page is.
C4_AllocateEffect ==
    [][(last'.op = "allocate_page" /\ last'.status = "ok") =>
          LET T == DiskTotalPages(file)
              at == (T + 1) * page_size
              field == PageHeader_SIZE + SpanStart(MetadataPageFields, 5)
              kept == IF Len(file) < at THEN Len(file) ELSE at
          IN  /\ last'.value = T + 1
              /\ DiskTotalPages(file') = T + 1
              /\ io' = <<Transfer("read", 0, page_size),
                         Transfer("write", 0, page_size),
                         Transfer("write", at, page_size)>>
              /\ Len(file') = Max(Len(file), at + page_size)
              /\ SubSeq(file', at + 1, at + page_size) = Zeros(page_size)
              /\ SubSeq(file', 1, field) = SubSeq(file, 1, field)
              /\ SubSeq(file', MinPageSize + 1, kept) = SubSeq(file, MinPageSize + 1, kept)
              /\ SubSeq(file', kept + 1, at) = Zeros(at - kept)
              /\ SubSeq(file', at + page_size + 1, Len(file'))
                     = SubSeq(file, at + page_size + 1, Len(file))]_vars

\* a successful allocate_page on a file whose free list is not empty
C4_Witness ==
    /\ last.op = "allocate_page" /\ last.status = "ok"
    /\ last.value = DiskTotalPages(file)
    /\ DiskFirstFreeListPage(file) # 0

\* C5: on a manager opened over a well-formed file with total_pages = T every
\* allocate_page of a sequence succeeds and the k-th returns T + k: the first
\* after new returns T + 1, and one that follows an allocate_page that returned
\* v returns v + 1.
C5_EveryAllocateSucceeds ==
    [][(/\ last'.op = "allocate_page"
        /\ last.status = "ok"
        /\ \/ last.op = "new" /\ WellFormed(file, page_size)
           \/ last.op = "allocate_page") =>
          /\ last'.status = "ok"
          /\ last'.value = IF last.op = "new" THEN DiskTotalPages(file) + 1
                           ELSE last.value + 1
          /\ last'.value # 0]_vars

\* C6: between operations every buffer pool entry is page_size bytes long and
\* starts with a header, and the cached Metadata page has the total_pages of
\* page 0 on disk.
C6_PoolEntriesAreWholePages ==
    opened =>
        \A id \in DOMAIN buffer_pool :
            /\ Len(buffer_pool[id]) = page_size
            /\ ~PageHeader_deserialize(buffer_pool[id]).panic
            /\ id = METADATA_PAGE_ID =>
                   read_total_pages(buffer_pool[id]) = DiskTotalPages(file)

\* C7: between operations every page i of the file starts with a header that
\* decodes with page_id = i, and with page type Metadata only for i = 0.
C7_EveryPageHasItsHeader ==
    created_page_size > 0 =>
        \A i \in 0..(Len(file) \div created_page_size - 1) :
            LET h == PageHeader_deserialize(PageOf(file, created_page_size, i))
            IN  /\ ~h.panic
                /\ h.page_id = i
                /\ h.page_type = "Metadata" => i = 0

\* C8: on a freshly created file (one Metadata page) with page_size 4096,
\* create_data_page succeeds and returns 1, and page 1 on disk then decodes to
\* a header with page_id 1, type Data and free_space_pointer = body offset +
\* DataPage minimum size, followed by num_records 0 and an empty slot array.
C8_CreateDataPageOnFreshFile ==
    [][(/\ last'.op = "create_data_page"
        /\ page_size = DEFAULT_PAGE_SIZE
        /\ file = MetadataPageBytes(DEFAULT_PAGE_SIZE, 1, 0)) =>
          /\ last'.status = "ok"
          /\ last'.value = 1
          /\ read_page(file', 1, DEFAULT_PAGE_SIZE).ok
          /\ LET page == read_page(file', 1, DEFAULT_PAGE_SIZE).data
                 h == PageHeader_deserialize(page)
             IN  /\ ~h.panic
                 /\ h.page_id = 1
                 /\ h.page_type = "Data"
                 /\ h.free_space_pointer = DataBodyOffset + DataPage_MIN_SIZE
                 /\ SubSeq(page, DataBodyOffset + 1, DataBodyOffset + DataPage_MIN_SIZE)
                        = Zeros(DataPage_MIN_SIZE)]_vars

\* C9: create_index_page(is_leaf) on a manager just opened over a well-formed
\* file succeeds and writes a page whose header decodes with type Index, the
\* new page id and free_space_pointer = the post-body offset, and whose body
\* is is_leaf, next_leaf 0, key count 0 and child-pointer count 0.
C9_CreateIndexPage ==
    [][(/\ last'.op = "create_index_page"
        /\ last.op = "new" /\ last.status = "ok"
        /\ WellFormed(file, page_size)) =>
          /\ last'.status = "ok"
          /\ read_page(file', last'.value, page_size).ok
          /\ LET page == read_page(file', last'.value, page_size).data
                 h == PageHeader_deserialize(page)
                 body_size == calc_size(IndexPage_new(last'.arg))
                 body == SubSeq(page, IndexBodyOffset + 1, IndexBodyOffset + body_size)
             IN  /\ ~h.panic
                 /\ h.page_id = last'.value
                 /\ h.page_type = "Index"
                 /\ h.free_space_pointer = IndexBodyOffset + body_size
                 /\ body = <<IF last'.arg THEN 1 ELSE 0>> \o Zeros(body_size - 1)]_vars

\* C10: every page the manager reads or writes is S bytes long at an offset
\* i * S, where S is the page_size the file was created with, also after the
\* file is reopened with new under any config.  (Stated for the pages the
\* manager transfers on its own account; the bytes a caller hands to
\* write_page are left out.)
C10_TransfersUseCreationPageSize ==
    (created_page_size > 0 /\ last.op # "write_page") =>
        \A k \in 1..Len(io) :
            /\ io[k].len = created_page_size
            /\ io[k].offset % created_page_size = 0

\* C11: a successful write_page(id, bytes), for any id and any byte vector,
\* transfers exactly page_size bytes at offset id * page_size (one write, which
\* ends with its sync): afterwards the file reaches at least to the end of page
\* id, every byte outside [id * page_size, (id + 1) * page_size) is as it was
\* (zero where the file grew), and the buffer pool is unchanged.
C11_WritePageFrame ==
    [][(last'.op = "write_page" /\ last'.status = "ok") =>
          LET at == last'.arg * page_size
              end == at + page_size
          IN  /\ io' = <<Transfer("write", at, page_size)>>
              /\ Len(file') = Max(Len(file), end)
              /\ \A i \in 1..Len(file') :
                     (i <= at \/ i > end) =>
                         file'[i] = IF i <= Len(file) THEN file[i] ELSE 0
              /\ buffer_pool' = buffer_pool]_vars

-----------------------------------------------------------------------------
(* load_into_buffer_pool called directly, lib.rs:634-660.  Under SpecPool      *)
(* buffer_pool is the cache handed to it, max_cache_size its bound, and the   *)
(* loader is read_page on `file`, which write_page changes under the cache.   *)

MaxCacheSize == 2     \* max_cache_size values the model follows

\* a test that never finds the page in the cache
contains_key_never(cache, page_id) == FALSE

\* cache.contains_key(&page_id), lib.rs:644
contains_key(cache, page_id) == page_id \in DOMAIN cache

\* load_into_buffer_pool(cache, max_size, page_id, || read_page(f, page_id, ps)):
\* the outcomes it can have; value is the bytes behind the returned reference
\* and io holds one read for each time the loader ran
load_into_buffer_pool_from(f, cache, ps, max_size, page_id) ==
    LET loaded == read_page(f, page_id, ps)
        rd == <<Transfer("read", page_id * ps, ps)>>
    IN  IF contains_key(cache, page_id)
        THEN {Outcome("ok", cache[page_id], f, cache, <<>>)}
        ELSE IF ~loaded.ok THEN {Outcome("io_error", <<>>, f, cache, rd)}
        ELSE {Outcome("ok", c[page_id], f, c, rd) :
                c \in load_into_buffer_pool(cache, max_size, page_id, loaded.data)}

\* an empty cache, any bound from 0 on, and a file of whole pages
InitPool ==
    /\ file = well_formed_file(MinPageSize, MaxInitPages + 1, 0)
    /\ created_page_size = MinPageSize
    /\ opened = TRUE
    /\ page_size = MinPageSize
    /\ max_cache_size \in 0..MaxCacheSize
    /\ buffer_pool = EmptyPool
    /\ last = Call("none", 0, "ok", 0)
    /\ io = <<>>
    /\ allocs = 0
    /\ writes = 0
    /\ threads = <<>>
    /\ handles = <<>>

LoadPage ==
    \E page_id \in 0..MaxPageId :
    \E o \in load_into_buffer_pool_from(file, buffer_pool, page_size,
                                        max_cache_size, page_id) :
        /\ buffer_pool' = o.pool
        /\ last' = Call("load_into_buffer_pool",
                        [cache |-> buffer_pool, max_cache_size |-> max_cache_size,
                         page_id |-> page_id],
                        o.status, o.value)
        /\ io' = o.io
        /\ UNCHANGED <<file, opened, page_size, max_cache_size, created_page_size,
                       allocs, writes, threads, handles>>

NextPool == LoadPage \/ WritePage

SpecPool == InitPool /\ [][NextPool]_vars

\* C12: starting from an empty cache and with max_cache_size >= 1, after every
\* load_into_buffer_pool call the cache holds at most max_cache_size entries
\* and, when the call succeeded, the requested page id; a miss on a cache
\* that already holds max_cache_size entries evicts exactly one of them, and
\* no other call removes an entry.
C12_PoolBounded ==
    (last.op = "load_into_buffer_pool" /\ max_cache_size >= 1) =>
        LET before == DOMAIN last.arg.cache
            after == DOMAIN buffer_pool
            id == last.arg.page_id
        IN  /\ Cardinality(after) <= max_cache_size
            /\ last.status = "ok" => id \in after
            /\ after \subseteq before \cup {id}
            /\ IF /\ last.status = "ok"
                  /\ id \notin before
                  /\ Cardinality(before) >= max_cache_size
               THEN Cardinality(before \ after) = 1
               ELSE before \subseteq after

\* with max_cache_size = 1, page B loaded into a cache that held page A alone
C12_Witness ==
    /\ last.op = "load_into_buffer_pool" /\ last.status = "ok"
    /\ max_cache_size = 1
    /\ Cardinality(DOMAIN last.arg.cache) = 1
    /\ last.arg.page_id \notin DOMAIN last.arg.cache
    /\ DOMAIN buffer_pool = {last.arg.page_id}

\* C13: load_into_buffer_pool runs the loader exactly once when the page id is
\* absent from the cache and never when it is present; on a hit the cache is
\* unchanged (same keys, same bytes) and the bytes returned are the cached
\* ones; on a miss the bytes returned are the loader's.
C13_LoaderOnlyOnMiss ==
    last.op = "load_into_buffer_pool" =>
        LET cache == last.arg.cache
            id == last.arg.page_id
        IN  IF id \in DOMAIN cache
            THEN /\ io = <<>>
                 /\ last.status = "ok"
                 /\ buffer_pool = cache
                 /\ last.value = cache[id]
            ELSE /\ io = <<Transfer("read", id * page_size, page_size)>>
                 /\ last.status = "ok" =>
                        /\ last.value = read_page(file, id, page_size).data
                        /\ buffer_pool[id] = last.value

\* a hit on a page whose bytes on disk have changed since it was cached
C13_Witness ==
    /\ last.op = "load_into_buffer_pool" /\ last.status = "ok"
    /\ last.arg.page_id \in DOMAIN last.arg.cache
    /\ read_page(file, last.arg.page_id, page_size).ok
    /\ last.value # read_page(file, last.arg.page_id, page_size).data

-----------------------------------------------------------------------------
(* The page codec called directly.  Under SpecCodec no manager exists and    *)
(* `last` is one codec call: Init draws the call and its inputs (status      *)
(* "pending", arg the inputs) and the action of that call applies it (value  *)
(* the result; for a serialize the buffer afterwards and the count returned).*)

MaxTag == 6           \* page type tags 0..MaxTag (and the largest of the width)

\* field values: each byte of a 32-bit value differs in the largest; the
\* model's integers stay below 2^31, so the upper half of a u64 is zero
FieldValues == {0, 1, 258, 16909060}

\* a caller's buffer of n bytes, none of them zero
Fill(n) == [i \in 1..n |-> 170]

ByteTags == 0..MaxTag \cup {255}
U16Tags == 0..MaxTag \cup {255, 256, 65535}

\* a zeroed header-sized buffer with the given byte in the page type field
RawHeader(tag) ==
    WriteField(Zeros(PageHeader_SIZE), PageHeaderFields, 2, <<tag>>)

\* a call that has not run yet; `none` is an empty result of the call's kind
Pending(op, arg, none) == Call(op, arg, "pending", none)
\* a serialize call that has not run yet, on value v and the destination buffer
PendingSerialize(op, v, buffer) ==
    Pending(op, [v |-> v, buffer |-> buffer], [buffer |-> <<>>, ret |-> 0])

\* `last` is the pending call op
IsPending(op) == last.op = op /\ last.status = "pending"

\* the call `last` returns with the result r of a serialize
SerializeCall(r) ==
    /\ last' = Call(last.op, last.arg, IF r.panic THEN "panic" ELSE "ok",
                    [buffer |-> r.buffer, ret |-> r.ret])
    /\ UNCHANGED <<file, opened, page_size, max_cache_size, buffer_pool, io,
                   created_page_size, allocs, writes, threads, handles>>

\* any other codec call, with its status and value
CodecCall(op, arg, status, value) ==
    /\ last' = Call(op, arg, status, value)
    /\ UNCHANGED <<file, opened, page_size, max_cache_size, buffer_pool, io,
                   created_page_size, allocs, writes, threads, handles>>

PageHeaderCalls ==
    \E page_id \in FieldValues, page_type \in PageTypes, checksum \in FieldValues,
       lsn \in FieldValues, free_space_pointer \in FieldValues,
       n \in {PageHeader_size - 1, PageHeader_size, PageHeader_SIZE} :
        last = PendingSerialize("PageHeader::serialize",
                                [page_id |-> page_id, page_type |-> page_type,
                                 checksum |-> checksum, lsn |-> lsn,
                                 free_space_pointer |-> free_space_pointer],
                                Fill(n))

PageTypeCalls ==
    \/ \E tag \in ByteTags :
          \/ last = Pending("PageHeader::deserialize", RawHeader(tag),
                            [panic |-> TRUE])
          \/ last = Pending("PageType::from_be_bytes", tag, "")
    \/ \E value \in U16Tags : last = Pending("PageType::from", value, "")

SerializePageHeader ==
    /\ IsPending("PageHeader::serialize")
    /\ SerializeCall(PageHeader_serialize(last.arg.v, last.arg.buffer))

\* PageHeader::deserialize of the buffer a serialize just filled, or of raw
\* bytes with any page type byte
DeserializePageHeader ==
    \E buffer \in IF last.op = "PageHeader::serialize" /\ last.status = "ok"
                  THEN {last.value.buffer}
                  ELSE IF IsPending("PageHeader::deserialize") THEN {last.arg}
                  ELSE {} :
        LET d == PageHeader_deserialize(buffer)
        IN  CodecCall("PageHeader::deserialize", buffer,
                      IF d.panic THEN "panic" ELSE "ok", d)

PageTypeFromBeBytes ==
    /\ IsPending("PageType::from_be_bytes")
    /\ LET t == PageType_from_be_bytes(<<last.arg>>)
       IN  CodecCall(last.op, last.arg, IF t = "panic" THEN "panic" ELSE "ok", t)

PageTypeFrom ==
    /\ IsPending("PageType::from")
    /\ CodecCall(last.op, last.arg, "ok", PageType_from(last.arg))

MaxSlots == 2         \* slots of a DataPage
MaxKeys == 2          \* keys of an IndexPage (child pointers: one more)
MaxKeySize == 9       \* bytes of an IndexPage key
MaxFreeIds == 2       \* page ids of a FreeListPage

\* the sequences over S of at most n elements
SeqsUpTo(S, n) == UNION {[1..k -> S] : k \in 0..n}

\* buffers around a needed size: one byte short, exact, and with room to spare
BuffersAround(size) ==
    {Fill(n) : n \in {size - 1, size, size + size_of_u64} \cap Nat}

MetadataPageCalls ==
    \E ps \in {MinPageSize, DEFAULT_PAGE_SIZE}, root_page_id \in {0, 258},
       first_free_list_page \in {0, 1}, total_pages \in {1, 16909060},
       buffer \in BuffersAround(SpanEnd(MetadataPageFields, 5)) :
        last = PendingSerialize("MetadataPage::serialize",
                                [db_version |-> DB_VERSION, page_size |-> ps,
                                 root_page_id |-> root_page_id,
                                 first_free_list_page |-> first_free_list_page,
                                 total_pages |-> total_pages],
                                buffer)

DataPageCalls ==
    \E num_records \in {0, 258},
       slot_array \in SeqsUpTo({1, 16909060}, MaxSlots) :
        LET dp == [num_records |-> num_records, slot_array |-> slot_array]
        IN  \E buffer \in BuffersAround(DataPage_size(dp)) :
                last = PendingSerialize("DataPage::serialize", dp, buffer)

\* IndexPages whose keys all have the same length
IndexPageCalls ==
    \E is_leaf \in BOOLEAN, next_leaf \in {0, 258}, key_size \in 0..MaxKeySize,
       keys_len \in 0..MaxKeys, child_pointers_len \in 0..(MaxKeys + 1) :
        LET ip == [is_leaf |-> is_leaf, next_leaf |-> next_leaf,
                   keys |-> [i \in 1..keys_len |-> [j \in 1..key_size |-> i]],
                   child_pointers |-> [i \in 1..child_pointers_len |-> 256 + i]]
        IN  \E buffer \in BuffersAround(calc_size(ip)) :
                last = PendingSerialize("IndexPage::serialize", ip, buffer)

FreeListPageCalls ==
    \E next_free_list \in {0, 258},
       free_page_ids \in SeqsUpTo({1, 16909060}, MaxFreeIds) :
        LET fl == [next_free_list |-> next_free_list,
                   free_page_ids |-> free_page_ids]
        IN  \E buffer \in BuffersAround(FreeListPage_MIN_SIZE
                              + FreeListPage_FREE_PAGE_IDS_VALUE_SIZE
                                * Len(free_page_ids)) :
                last = PendingSerialize("FreeListPage::serialize", fl, buffer)

SerializeMetadataPage ==
    /\ IsPending("MetadataPage::serialize")
    /\ SerializeCall(MetadataPage_serialize(last.arg.v, last.arg.buffer))

SerializeDataPage ==
    /\ IsPending("DataPage::serialize")
    /\ SerializeCall(DataPage_serialize(last.arg.v, last.arg.buffer))

SerializeIndexPage ==
    /\ IsPending("IndexPage::serialize")
    /\ SerializeCall(IndexPage_serialize(last.arg.v, last.arg.buffer))

SerializeFreeListPage ==
    /\ IsPending("FreeListPage::serialize")
    /\ SerializeCall(FreeListPage_serialize(last.arg.v, last.arg.buffer))

\* C14 (as the code has it): for every PageHeader h with any of the five page
\* types, PageHeader::deserialize of the buffer h.serialize filled reproduces
\* page_id, page_type, checksum, lsn and free_space_pointer, and serialize
\* returns the end of the last field (PageHeader::size(), 28), which is the
\* number of bytes written and not the padded end of the header.
C14_HeaderRoundTrip ==
    [][/\ (/\ last'.op = "PageHeader::deserialize"
           /\ last.op = "PageHeader::serialize" /\ last.status = "ok"
           /\ last'.arg = last.value.buffer) =>
             /\ last'.status = "ok"
             /\ last'.value.page_id = last.arg.v.page_id
             /\ last'.value.page_type = last.arg.v.page_type
             /\ last'.value.checksum = last.arg.v.checksum
             /\ last'.value.lsn = last.arg.v.lsn
             /\ last'.value.free_space_pointer = last.arg.v.free_space_pointer
       /\ (last'.op = "PageHeader::serialize" /\ last'.status = "ok") =>
             /\ last'.value.ret = PageHeader_size
             /\ last'.value.ret < PageHeader_SIZE]_vars

\* a header with four different field values and the last page type, decoded
\* from the buffer it was serialized into
C14_Witness ==
    /\ last.op = "PageHeader::deserialize" /\ last.status = "ok"
    /\ last.value.page_id = 16909060
    /\ last.value.page_type = "FreeList"
    /\ last.value.checksum = 258
    /\ last.value.lsn = 1
    /\ last.value.free_space_pointer = 16909060

\* C14 as stated: the same round trip, with serialize returning the header's
\* padded end offset (PageHeader::SIZE, where the page body starts).
C14_AsStated ==
    [][/\ (/\ last'.op = "PageHeader::deserialize"
           /\ last.op = "PageHeader::serialize" /\ last.status = "ok"
           /\ last'.arg = last.value.buffer) =>
             /\ last'.status = "ok"
             /\ last'.value.page_id = last.arg.v.page_id
             /\ last'.value.page_type = last.arg.v.page_type
             /\ last'.value.checksum = last.arg.v.checksum
             /\ last'.value.lsn = last.arg.v.lsn
             /\ last'.value.free_space_pointer = last.arg.v.free_space_pointer
       /\ (last'.op = "PageHeader::serialize" /\ last'.status = "ok") =>
             last'.value.ret = PageHeader_SIZE]_vars

\* C15: every conversion from a numeric tag to a PageType (PageType::from_be_bytes,
\* PageHeader::deserialize which uses it, and From<u16>) maps 0..4 to Metadata,
\* Data, Index, Overflow, FreeList and fails for every other tag; none returns
\* a page type for a tag outside 0..4.
C15_InvalidTagIsReported ==
    LET name == <<"Metadata", "Data", "Index", "Overflow", "FreeList">>
    IN  /\ (/\ last.op \in {"PageType::from_be_bytes", "PageType::from"}
            /\ last.status # "pending") =>
              IF last.arg \in 0..4
              THEN last.status = "ok" /\ last.value = name[last.arg + 1]
              ELSE last.status = "panic"
        /\ (last.op = "PageHeader::deserialize" /\ last.status # "pending") =>
              LET tag == ReadField(last.arg, PageHeaderFields, 2)[1]
              IN  IF tag \in 0..4
                  THEN last.status = "ok" /\ last.value.page_type = name[tag + 1]
                  ELSE last.status = "panic"

\* the result of the size function that goes with a serialize call on v
SizeNeeded(op, v) ==
    CASE op = "PageHeader::serialize" -> PageHeader_size
      [] op = "MetadataPage::serialize" -> SpanEnd(MetadataPageFields, 5)
      [] op = "DataPage::serialize" -> DataPage_size(v)
      [] op = "IndexPage::serialize" -> calc_size(v)
      [] op = "FreeListPage::serialize" ->
            FreeListPage_MIN_SIZE
            + FreeListPage_FREE_PAGE_IDS_VALUE_SIZE * Len(v.free_page_ids)

\* C16: for each page kind (PageHeader, MetadataPage, DataPage, IndexPage,
\* FreeListPage) a serialize into a buffer shorter than the size function's
\* result fails and leaves every byte of the buffer as it was, and a serialize
\* into a buffer at least that long is not rejected and writes nothing past
\* that size.
C16_ShortBufferRejected ==
    (/\ last.op \in {"PageHeader::serialize", "MetadataPage::serialize",
                     "DataPage::serialize", "IndexPage::serialize",
                     "FreeListPage::serialize"}
     /\ last.status # "pending") =>
        LET size == SizeNeeded(last.op, last.arg.v)
            buffer == last.arg.buffer
        IN  IF Len(buffer) < size
            THEN last.status = "panic" /\ last.value.buffer = buffer
            ELSE /\ last.status = "ok"
                 /\ Len(last.value.buffer) = Len(buffer)
                 /\ SubSeq(last.value.buffer, size + 1, Len(buffer))
                        = SubSeq(buffer, size + 1, Len(buffer))

RECURSIVE IndexKeyOffset(_, _)
\* where key i of IndexPage ip belongs: after the u32 key count at 16, each key
\* aligned for its length
IndexKeyOffset(ip, i) ==
    LET key_size == Len(ip.keys[1])
        from == IF i = 1 THEN 16 + 4 ELSE IndexKeyOffset(ip, i - 1) + key_size
    IN  from + padding_needed_from_size(from, key_size)

\* where the child-pointer count of ip belongs: 4-aligned after the last key
IndexChildLenOffset(ip) ==
    LET end == IF ip.keys = <<>> THEN 16 + 4
               ELSE IndexKeyOffset(ip, Len(ip.keys)) + Len(ip.keys[1])
    IN  end + ((4 - (end % 4)) % 4)

\* where the first child pointer of ip belongs: 8-aligned after the count
IndexFirstChildOffset(ip) ==
    LET end == IndexChildLenOffset(ip) + 4
    IN  end + ((8 - (end % 8)) % 8)

\* C17: for every IndexPage whose keys all have the same length, serialize into
\* a buffer of calc_size() bytes succeeds, returns calc_size(), and lays out
\* is_leaf at 0, next_leaf at 8, the u32 key count at 16, the keys aligned for
\* their length, the u32 child count 4-aligned after them and the u64 child
\* pointers 8-aligned after it, ending at calc_size().
C17_IndexSerializeMatchesCalcSize ==
    (/\ last.op = "IndexPage::serialize" /\ last.status # "pending"
     /\ Len(last.arg.buffer) = calc_size(last.arg.v)) =>
        LET ip == last.arg.v
            b == last.value.buffer
            child_len == IndexChildLenOffset(ip)
            first_child == IndexFirstChildOffset(ip)
        IN  /\ last.status = "ok"
            /\ last.value.ret = calc_size(ip)
            /\ calc_size(ip) = first_child + 8 * Len(ip.child_pointers)
            /\ b[1] = IF ip.is_leaf THEN 1 ELSE 0
            /\ Slice(b, 8, 16) = to_be_bytes(ip.next_leaf, 8)
            /\ Slice(b, 16, 20) = to_be_bytes(Len(ip.keys), 4)
            /\ \A i \in 1..Len(ip.keys) :
                   Slice(b, IndexKeyOffset(ip, i),
                         IndexKeyOffset(ip, i) + Len(ip.keys[i])) = ip.keys[i]
            /\ Slice(b, child_len, child_len + 4)
                   = to_be_bytes(Len(ip.child_pointers), 4)
            /\ \A i \in 1..Len(ip.child_pointers) :
                   Slice(b, first_child + 8 * (i - 1), first_child + 8 * i)
                       = to_be_bytes(ip.child_pointers[i], 8)

\* C18: for every DataPage with n slots, size() is the 8 bytes through the
\* length field plus 4 * n, and serialize into a buffer of at least size()
\* bytes writes num_records as a u32 at 0, n as a u32 at 4 and the slot
\* offsets as big-endian u32 values one after the other from 8 on, in slot
\* order, returns size() and leaves the rest of the buffer alone.
C18_DataPageLayout ==
    (/\ last.op = "DataPage::serialize" /\ last.status # "pending"
     /\ Len(last.arg.buffer) >= DataPage_size(last.arg.v)) =>
        LET dp == last.arg.v
            n == Len(dp.slot_array)
            b == last.value.buffer
        IN  /\ DataPage_size(dp) = 4 + 4 + 4 * n
            /\ last.status = "ok"
            /\ last.value.ret = 8 + 4 * n
            /\ Len(b) = Len(last.arg.buffer)
            /\ Slice(b, 0, 4) = to_be_bytes(dp.num_records, 4)
            /\ Slice(b, 4, 8) = to_be_bytes(n, 4)
            /\ \A i \in 1..n :
                   Slice(b, 8 + 4 * (i - 1), 8 + 4 * i)
                       = to_be_bytes(dp.slot_array[i], 4)
            /\ Slice(b, 8 + 4 * n, Len(b))
                   = Slice(last.arg.buffer, 8 + 4 * n, Len(b))

\* a DataPage with two different slots serialized into a buffer with room to
\* spare
C18_Witness ==
    /\ last.op = "DataPage::serialize" /\ last.status = "ok"
    /\ last.arg.v.slot_array = <<16909060, 1>>
    /\ last.arg.v.num_records = 258
    /\ Len(last.arg.buffer) > last.value.ret

\* C19: for every FreeListPage with n free page ids and a buffer of at least
\* 16 + 8n bytes, serialize succeeds, writes next_free_list as a big-endian
\* u64 at 0..8, n as a big-endian u32 at 8..12, the ids as big-endian u64
\* values one after the other from 16 on, and returns 16 + 8n.
C19_FreeListPageLayout ==
    (/\ last.op = "FreeListPage::serialize" /\ last.status # "pending"
     /\ Len(last.arg.buffer) >= 16 + 8 * Len(last.arg.v.free_page_ids)) =>
        LET fl == last.arg.v
            n == Len(fl.free_page_ids)
            b == last.value.buffer
        IN  /\ last.status = "ok"
            /\ last.value.ret = 16 + 8 * n
            /\ Slice(b, 0, 8) = to_be_bytes(fl.next_free_list, 8)
            /\ Slice(b, 8, 12) = to_be_bytes(n, 4)
            /\ \A i \in 1..n :
                   Slice(b, 16 + 8 * (i - 1), 16 + 8 * i)
                       = to_be_bytes(fl.free_page_ids[i], 8)

MaxOffset == 17       \* offsets handed to padding_needed_from_size
MaxFieldSize == 17    \* sizes of the next field
MaxFields == 3        \* fields placed one after the other

\* the sizes of the primitive fields
PrimitiveSizes == {size_of_u8, 2, size_of_u32, size_of_u64}

PaddingCalls ==
    \/ \E offset \in 0..MaxOffset, next_size \in 0..MaxFieldSize :
          last = Pending("padding_needed_from_size",
                         [offset |-> offset, next_size |-> next_size], 0)
    \/ \E offset \in 0..MaxOffset,
          sizes \in SeqsUpTo(PrimitiveSizes, MaxFields) \ {<<>>} :
          last = Pending("place_fields", [offset |-> offset, sizes |-> sizes], <<>>)

PaddingNeededFromSize ==
    /\ IsPending("padding_needed_from_size")
    /\ CodecCall(last.op, last.arg, "ok",
                 padding_needed_from_size(last.arg.offset, last.arg.next_size))

PlaceFields ==
    /\ IsPending("place_fields")
    /\ CodecCall(last.op, last.arg, "ok",
                 place_fields(last.arg.sizes, 1, last.arg.offset))

\* C20: for every offset and every next-field size of 1, 2, 4 or 8 bytes,
\* padding_needed_from_size returns (size - offset % size) % size, so that
\* offset + padding is the least multiple of the size that is >= offset (for
\* any size the padding is below 16); and fields of primitive sizes placed one
\* after the other with this rule get offsets that never decrease, do not
\* overlap, and are each a multiple of the field's size.
C20_PaddingLaw ==
    /\ (last.op = "padding_needed_from_size" /\ last.status = "ok") =>
          LET offset == last.arg.offset
              size == last.arg.next_size
              padding == last.value
          IN  /\ padding \in 0..15
              /\ size \in {1, 2, 4, 8} =>
                    /\ padding = (size - (offset % size)) % size
                    /\ (offset + padding) % size = 0
                    /\ padding < size
    /\ (last.op = "place_fields" /\ last.status = "ok") =>
          LET sizes == last.arg.sizes
              offsets == last.value
          IN  /\ Len(offsets) = Len(sizes)
              /\ offsets[1] >= last.arg.offset
              /\ \A k \in 1..Len(sizes) :
                    /\ offsets[k] % sizes[k] = 0
                    /\ k > 1 => offsets[k] >= offsets[k - 1] + sizes[k - 1]

\* a u8, a u64 and a u16 placed from offset 3 on: padding of 0, 4 and 0 bytes
C20_Witness ==
    /\ last.op = "place_fields" /\ last.status = "ok"
    /\ last.arg = [offset |-> 3, sizes |-> <<1, 8, 2>>]
    /\ last.value = <<3, 8, 16>>

InitCodec ==
    /\ \/ PageHeaderCalls
       \/ PageTypeCalls
       \/ MetadataPageCalls
       \/ DataPageCalls
       \/ IndexPageCalls
       \/ FreeListPageCalls
       \/ PaddingCalls
    /\ file = <<>>
    /\ opened = FALSE
    /\ page_size = 0
    /\ max_cache_size = 0
    /\ buffer_pool = EmptyPool
    /\ io = <<>>
    /\ created_page_size = 0
    /\ allocs = 0
    /\ writes = 0
    /\ threads = <<>>
    /\ handles = <<>>

NextCodec ==
    \/ SerializePageHeader
    \/ DeserializePageHeader
    \/ PageTypeFromBeBytes
    \/ PageTypeFrom
    \/ SerializeMetadataPage
    \/ SerializeDataPage
    \/ SerializeIndexPage
    \/ SerializeFreeListPage
    \/ PaddingNeededFromSize
    \/ PlaceFields

SpecCodec == InitCodec /\ [][NextCodec]_vars

-----------------------------------------------------------------------------
(* #[derive(StructLayout)]: SpecLayout                                       *)
(*                                                                           *)
(* Init draws one declaration the derive is applied to (`last` holds it      *)
(* "pending") and DeriveStructLayout expands it. A field's type is what the  *)
(* macro is handed (syn::Type: whether it is a Type::Path, the ident of the  *)
(* path's first segment and that segment's arguments) together with what the *)
(* type is (kind), which the token stream does not carry.                    *)

MaxStructFields == 3  \* named fields of a declaration

\* lib.rs:28-32
primitives ==
    {"u8", "u16", "u32", "u64", "u128", "usize", "i8", "i16", "i32", "i64",
     "i128", "isize", "f32", "f64", "bool", "char"}

\* the field types of struct_layout_example (u64, Status, String, Vec<u8>) and
\* one type that is not a path
FieldTypes ==
    {[ident |-> "u64", path |-> TRUE, arguments |-> "None", kind |-> "primitive"],
     [ident |-> "Status", path |-> TRUE, arguments |-> "None", kind |-> "enum"],
     [ident |-> "String", path |-> TRUE, arguments |-> "None", kind |-> "struct"],
     [ident |-> "Vec", path |-> TRUE, arguments |-> "AngleBracketed",
      kind |-> "struct"],
     [ident |-> "", path |-> FALSE, arguments |-> "None", kind |-> "array"]}

is_primitive_or_enum_type(ty) ==
    IF ~ty.path THEN FALSE
    ELSE IF ty.ident \in primitives THEN TRUE
    ELSE IF ty.ident \notin primitives /\ ty.arguments = "None" THEN TRUE
    ELSE FALSE

\* the loop of lib.rs:59-69 from field i on: the index of the field it
\* breaks at, 0 (None) when it runs to the end
RECURSIVE invalid_field_after_complex(_, _, _)
invalid_field_after_complex(named, i, found_complex_type) ==
    IF i > Len(named) THEN 0
    ELSE IF ~is_primitive_or_enum_type(named[i])
    THEN invalid_field_after_complex(named, i + 1, TRUE)
    ELSE IF found_complex_type THEN i
    ELSE invalid_field_after_complex(named, i + 1, found_complex_type)

\* what an expansion holds: a compile_error! (and the field it names, 0 for
\* none), or an impl with SIZE or not, FIELD_COUNT, and the fields given
\* _SIZE, _OFFSET and _span
Expansion(compile_error, invalid_field, SIZE, FIELD_COUNT, layout) ==
    [compile_error |-> compile_error, invalid_field |-> invalid_field,
     SIZE |-> SIZE, FIELD_COUNT |-> FIELD_COUNT, layout |-> layout]

generate_impl(data) ==
    IF data.data # "Struct" \/ data.fields # "Named"
    THEN Expansion(TRUE, 0, FALSE, 0, {})
    ELSE
        LET named == data.named
            invalid == invalid_field_after_complex(named, 1, FALSE)
            layout == {i \in 1..Len(named) : is_primitive_or_enum_type(named[i])}
            all_primitives_or_enums ==
                \A i \in 1..Len(named) : is_primitive_or_enum_type(named[i])
        IN  IF invalid # 0 THEN Expansion(TRUE, invalid, FALSE, 0, {})
            ELSE Expansion(FALSE, 0, all_primitives_or_enums,
                           Cardinality(layout), layout)

\* the declarations: structs with named fields, a tuple struct and an enum
Declarations ==
    {[data |-> "Struct", fields |-> "Named", named |-> named] :
        named \in SeqsUpTo(FieldTypes, MaxStructFields)}
      \cup {[data |-> "Struct", fields |-> "Unnamed", named |-> <<>>],
            [data |-> "Enum", fields |-> "Unnamed", named |-> <<>>]}

InitLayout ==
    /\ \E data \in Declarations :
          last = Pending("derive(StructLayout)", data,
                         Expansion(FALSE, 0, FALSE, 0, {}))
    /\ file = <<>>
    /\ opened = FALSE
    /\ page_size = 0
    /\ max_cache_size = 0
    /\ buffer_pool = EmptyPool
    /\ io = <<>>
    /\ created_page_size = 0
    /\ allocs = 0
    /\ writes = 0
    /\ threads = <<>>
    /\ handles = <<>>

DeriveStructLayout ==
    /\ IsPending("derive(StructLayout)")
    /\ CodecCall(last.op, last.arg, "ok", generate_impl(last.arg))

NextLayout == DeriveStructLayout

SpecLayout == InitLayout /\ [][NextLayout]_vars

\* C21: the derive rejects every declaration in which a primitive or
\* enumeration field follows a field that is neither (a String, a Vec); in an
\* accepted declaration exactly the primitive and enumeration fields get
\* size, offset and span, and SIZE is produced only when every field is
\* primitive or enumeration typed.
C21_LayoutDerivation ==
    (last.op = "derive(StructLayout)" /\ last.status = "ok"
       /\ last.arg.data = "Struct" /\ last.arg.fields = "Named") =>
        LET named == last.arg.named
            fixed(i) == named[i].kind \in {"primitive", "enum"}
            misordered ==
                \E i \in 1..Len(named) : \E j \in 1..(i - 1) : fixed(i) /\ ~fixed(j)
        IN  /\ misordered => last.value.compile_error
            /\ ~last.value.compile_error =>
                  /\ last.value.layout = {i \in 1..Len(named) : fixed(i)}
                  /\ last.value.SIZE => \A i \in 1..Len(named) : fixed(i)

-----------------------------------------------------------------------------
(* Threads and managers on one backing file: SpecShared                      *)
(*                                                                           *)
(* A manager owns its File behind its own Mutex (Arc<Mutex<File>>, lib.rs    *)
(* 541) and its own buffer pool; managers opened on the same path share the  *)
(* bytes of the file and nothing else. A thread runs one call at a time, one *)
(* step per lock, seek, read_exact, write_all and sync_all; the guard is     *)
(* dropped by the step on which the locking function returns. allocate_page  *)
(* and new need the manager to themselves (&mut self, a value not yet        *)
(* returned), write_page (&self) runs alongside other write_page calls.      *)
(* Any seek, read, write or sync may fail with an I/O error.                 *)

MaxCalls == 1   \* calls a thread makes

Threads == {"t1", "t2"}
Managers == {"m1", "m2"}

\* page ids callers pass to write_page
WritePageIds == {1, 2}

\* a lock that is granted whoever holds the guard
MutexAlwaysFree(h) == TRUE

\* file.lock(): granted when no guard is alive
MutexFree(h) == h.mutex = "none"

\* a thread between calls; op, status and value are those of its last call
IdleThread ==
    [op |-> "none", mgr |-> "none", pc |-> "idle", call |-> "none",
     stage |-> "none", page_id |-> 0, data |-> <<>>, new_page_id |-> 0,
     status |-> "ok", value |-> 0, calls |-> 0, before |-> 0, isolated |-> TRUE]

\* thread t has a call in progress
Running(t) == threads[t].pc # "idle"

\* thread t begins a call: th is its record; calls in progress stop being
\* isolated
Begin(t, th) ==
    threads' = [u \in Threads |->
                  IF u = t
                  THEN [th EXCEPT !.calls = threads[t].calls + 1,
                                  !.isolated = \A v \in Threads \ {t} : ~Running(v)]
                  ELSE IF Running(u) THEN [threads[u] EXCEPT !.isolated = FALSE]
                  ELSE threads[u]]

\* the call of thread t returns
Done(th, status, value) ==
    [th EXCEPT !.pc = "idle", !.call = "none", !.stage = "none", !.data = <<>>,
               !.status = status, !.value = value]

\* the MutexGuard of thread t is dropped
Drop(h) == [h EXCEPT !.mutex = "none"]

\* file.read_exact(&mut page_data) at the handle's position
read_exact(f, cursor, len) ==
    IF cursor + len <= Len(f)
    THEN [ok |-> TRUE, data |-> SubSeq(f, cursor + 1, cursor + len)]
    ELSE [ok |-> FALSE, data |-> <<>>]

\* the rest of the state is that of the single-manager specifications, idle
SharedFrame ==
    UNCHANGED <<opened, page_size, max_cache_size, buffer_pool, last, io,
                created_page_size, allocs, writes>>

\* the file is empty, or holds one page and some managers are open on it
InitShared ==
    /\ file \in {<<>>, well_formed_file(MinPageSize, 1, 0)}
    /\ created_page_size = 0
    /\ opened = FALSE
    /\ page_size = MinPageSize
    /\ max_cache_size = DEFAULT_MAX_CACHE_SIZE
    /\ buffer_pool = EmptyPool
    /\ last = Call("none", 0, "ok", 0)
    /\ io = <<>>
    /\ allocs = 0
    /\ writes = 0
    /\ threads = [t \in Threads |-> IdleThread]
    /\ \E open \in SUBSET Managers :
          /\ NeedsInitialize(Len(file)) => open = {}
          /\ handles = [m \in Managers |->
                          [opened |-> m \in open, mutex |-> "none", cursor |-> 0,
                           buffer_pool |-> NewBufferPool]]

\* PagedFileManager::new up to the lock of initialize_file (lib.rs:550-587):
\* on a file that is not empty it returns the manager, on an empty file it
\* goes on to write the page initialize_file built, if that did not panic
StartNew(t) ==
    \E m \in Managers :
        /\ ~Running(t)
        /\ threads[t].calls < MaxCalls
        /\ ~handles[m].opened
        /\ \A u \in Threads : Running(u) => threads[u].mgr # m
        /\ LET th == [IdleThread EXCEPT !.op = "new", !.mgr = m]
               init == initialize_file(file, page_size)
           IN  IF ~NeedsInitialize(Len(file))
               THEN /\ Begin(t, th)
                    /\ handles' = [handles EXCEPT ![m].opened = TRUE]
               ELSE IF init.panic
               THEN /\ Begin(t, [th EXCEPT !.status = "panic"])
                    /\ UNCHANGED handles
               ELSE /\ Begin(t, [th EXCEPT !.pc = "lock", !.call = "initialize_file",
                                           !.page_id = METADATA_PAGE_ID,
                                           !.data = init.file])
                    /\ UNCHANGED handles
        /\ UNCHANGED file
        /\ SharedFrame

\* allocate_page up to the loader (lib.rs:598-606): a hit goes on without a read
StartAllocate(t) ==
    \E m \in Managers :
        /\ ~Running(t)
        /\ threads[t].calls < MaxCalls
        /\ handles[m].opened
        /\ \A u \in Threads : Running(u) => threads[u].mgr # m
        /\ LET th == [IdleThread EXCEPT !.op = "allocate_page", !.mgr = m,
                                        !.before = DiskTotalPages(file)]
           IN  IF contains_key(handles[m].buffer_pool, METADATA_PAGE_ID)
               THEN Begin(t, [th EXCEPT !.pc = "loaded"])
               ELSE Begin(t, [th EXCEPT !.pc = "lock", !.call = "read_page",
                                        !.page_id = METADATA_PAGE_ID])
        /\ UNCHANGED <<file, handles>>
        /\ SharedFrame

\* a caller's write_page(page_id, data)
StartWrite(t) ==
    \E m \in Managers, page_id \in WritePageIds :
        /\ ~Running(t)
        /\ threads[t].calls < MaxCalls
        /\ handles[m].opened
        /\ \A u \in Threads :
              (Running(u) /\ threads[u].mgr = m) => threads[u].op = "write_page"
        /\ Begin(t, [IdleThread EXCEPT
                        !.op = "write_page", !.mgr = m, !.pc = "lock",
                        !.call = "write_page", !.page_id = page_id,
                        !.data = TypedPage(page_size,
                                           PageHeader_new(page_id, "Overflow"),
                                           PageHeader_size, <<>>)])
        /\ UNCHANGED <<file, handles>>
        /\ SharedFrame

\* let mut file = file.lock().unwrap() (lib.rs:590, 627, 664)
Lock(t) ==
    LET m == threads[t].mgr
    IN  /\ threads[t].pc = "lock"
        /\ MutexFree(handles[m])
        /\ handles' = [handles EXCEPT ![m].mutex = t]
        /\ threads' = [threads EXCEPT ![t].pc = "seek"]
        /\ UNCHANGED file
        /\ SharedFrame

\* file.seek(SeekFrom::Start(page_id * page_size)) (lib.rs:591, 628, 665)
Seek(t) ==
    LET m == threads[t].mgr
    IN  /\ threads[t].pc = "seek"
        /\ handles' = [handles EXCEPT ![m].cursor = threads[t].page_id * page_size]
        /\ threads' = [threads EXCEPT
                          ![t].pc = IF threads[t].call = "read_page"
                                    THEN "read_exact" ELSE "write_all"]
        /\ UNCHANGED file
        /\ SharedFrame

\* file.read_exact(&mut page_data)?; Ok(page_data) (lib.rs:629-631)
ReadExact(t) ==
    LET m == threads[t].mgr
        r == read_exact(file, handles[m].cursor, page_size)
    IN  /\ threads[t].pc = "read_exact"
        /\ IF r.ok
           THEN /\ threads' = [threads EXCEPT ![t].pc = "loaded", ![t].data = r.data]
                /\ handles' = [handles EXCEPT
                                  ![m] = [Drop(@) EXCEPT !.cursor = @ + page_size]]
           ELSE /\ threads' = [threads EXCEPT ![t] = Done(@, "io_error", 0)]
                /\ handles' = [handles EXCEPT ![m] = Drop(@)]
        /\ UNCHANGED file
        /\ SharedFrame

\* allocate_page from the cache insert to the call of write_page for the
\* Metadata page (lib.rs:644-615)
Loaded(t) ==
    LET m == threads[t].mgr
        cache == handles[m].buffer_pool
    IN  /\ threads[t].pc = "loaded"
        /\ \E c \in IF contains_key(cache, METADATA_PAGE_ID) THEN {cache}
                    ELSE load_into_buffer_pool(cache, max_cache_size,
                                               METADATA_PAGE_ID, threads[t].data) :
              LET page_bytes == c[METADATA_PAGE_ID]
                  new_page_id == NewPageId(read_total_pages(page_bytes))
              IN  IF ~PageWindow_new_ok(page_bytes) \/ ~read_total_pages_ok(page_bytes)
                  THEN /\ threads' = [threads EXCEPT ![t] = Done(@, "panic", 0)]
                       /\ handles' = [handles EXCEPT ![m].buffer_pool = c]
                  ELSE /\ threads' =
                            [threads EXCEPT
                                ![t].pc = "lock", ![t].call = "write_page",
                                ![t].stage = "metadata",
                                ![t].page_id = METADATA_PAGE_ID,
                                ![t].new_page_id = new_page_id,
                                ![t].data = update_total_pages(page_bytes, new_page_id)]
                       /\ handles' =
                            [handles EXCEPT
                                ![m].buffer_pool =
                                    [c EXCEPT ![METADATA_PAGE_ID] = mem_take_residue]]
        /\ UNCHANGED file
        /\ SharedFrame

\* file.write_all(&data) (lib.rs:592, 666)
WriteAll(t) ==
    LET m == threads[t].mgr
    IN  /\ threads[t].pc = "write_all"
        /\ file' = FileWrite(file, handles[m].cursor, threads[t].data)
        /\ handles' = [handles EXCEPT ![m].cursor = @ + Len(threads[t].data)]
        /\ threads' = [threads EXCEPT ![t].pc = "sync_all"]
        /\ SharedFrame

\* file.sync_all()?; Ok(()) and what the caller does with it: new returns the
\* manager, allocate_page goes on to the empty page or returns new_page_id
SyncAll(t) ==
    LET m == threads[t].mgr
        th == threads[t]
    IN  /\ th.pc = "sync_all"
        /\ handles' = [handles EXCEPT
                          ![m] = [Drop(@) EXCEPT
                                     !.opened = IF th.op = "new" THEN TRUE ELSE @]]
        /\ threads' =
              [threads EXCEPT
                  ![t] = IF th.op = "allocate_page" /\ th.stage = "metadata"
                         THEN [th EXCEPT !.pc = "lock", !.stage = "empty_page",
                                         !.page_id = th.new_page_id,
                                         !.data = Zeros(page_size)]
                         ELSE IF th.op = "allocate_page"
                         THEN Done(th, "ok", th.new_page_id)
                         ELSE Done(th, "ok", 0)]
        /\ UNCHANGED file
        /\ SharedFrame

\* the seek, the read, the write or the sync fails: `?` returns the error
IoError(t) ==
    LET m == threads[t].mgr
    IN  /\ threads[t].pc \in {"seek", "read_exact", "write_all", "sync_all"}
        /\ threads' = [threads EXCEPT ![t] = Done(@, "io_error", 0)]
        /\ handles' = [handles EXCEPT ![m] = Drop(@)]
        /\ UNCHANGED file
        /\ SharedFrame

NextShared ==
    \E t \in Threads :
        \/ StartNew(t)
        \/ StartAllocate(t)
        \/ StartWrite(t)
        \/ Lock(t)
        \/ Seek(t)
        \/ ReadExact(t)
        \/ Loaded(t)
        \/ WriteAll(t)
        \/ SyncAll(t)
        \/ IoError(t)

SpecShared == InitShared /\ [][NextShared]_vars


\* thread t has returned from allocate_page with Ok(new_page_id)
Allocated(t) ==
    /\ threads[t].op = "allocate_page"
    /\ threads[t].pc = "idle"
    /\ threads[t].status = "ok"

\* C22: allocate_page is not atomic across its file operations: two
\* allocators on the same file return the same new_page_id (one update of
\* total_pages is lost) only when a call of one ran while the other had a
\* call in progress, and such a state is reachable.
C22_SameIdOnlyWhenInterleaved ==
    \A t \in Threads : \A u \in Threads \ {t} :
        (Allocated(t) /\ Allocated(u) /\ threads[t].value = threads[u].value) =>
            /\ threads[t].mgr # threads[u].mgr
            /\ ~threads[t].isolated \/ ~threads[u].isolated

\* two allocators have returned the same id and total_pages on disk is that
\* id: two pages were handed out and the count advanced by one
C22_Witness ==
    \E t \in Threads : \E u \in Threads \ {t} :
        /\ Allocated(t) /\ Allocated(u)
        /\ threads[t].value = threads[u].value
        /\ threads[t].before = threads[u].before
        /\ DiskTotalPages(file) = threads[t].before + 1

\* C23: on one file handle, a call's seek, transfer and sync happen under one
\* hold of the mutex: from its seek to its return the calling thread holds the
\* guard, nothing but its own steps moves the handle's position, the bytes are
\* read from and written to page_id * page_size, and outside a read_page,
\* write_page or initialize_file call (between the calls of allocate_page
\* too) the thread holds no guard.
C23_CallHoldsMutex ==
    [][/\ \A t \in Threads :
            LET th == threads'[t]
                at == th.page_id * page_size
            IN  /\ th.pc \in {"seek", "read_exact", "write_all", "sync_all"} =>
                      handles'[th.mgr].mutex = t
                /\ th.pc \in {"read_exact", "write_all"} =>
                      handles'[th.mgr].cursor = at
                /\ th.pc = "sync_all" => handles'[th.mgr].cursor = at + Len(th.data)
                /\ th.pc \in {"idle", "lock", "loaded"} =>
                      \A m \in Managers : handles'[m].mutex # t
                /\ (threads[t].pc = "read_exact" /\ th.pc = "loaded") =>
                      th.data = SubSeq(file, at + 1, at + page_size)
       /\ \A m \in Managers :
            handles'[m].cursor # handles[m].cursor =>
                \E t \in Threads :
                    /\ handles[m].mutex = t
                    /\ threads[t].mgr = m
                    /\ threads'[t] # threads[t]
                    /\ \A u \in Threads \ {t} : threads'[u] = threads[u]
       /\ file' # file =>
            \E t \in Threads :
                /\ threads[t].pc = "write_all"
                /\ threads'[t].pc = "sync_all"
                /\ handles[threads[t].mgr].mutex = t
                /\ file' = FileWrite(file, threads[t].page_id * page_size,
                                     threads[t].data)]_vars

\* a write_page has sought to its page and holds the guard while another
\* thread's write_page to another page of the same manager waits for the lock
C23_Witness ==
    \E t \in Threads : \E u \in Threads \ {t} :
        /\ threads[t].op = "write_page" /\ threads[u].op = "write_page"
        /\ threads[t].mgr = threads[u].mgr
        /\ threads[t].page_id # threads[u].page_id
        /\ threads[t].pc = "write_all"
        /\ threads[u].pc = "lock"

\* C24: when allocate_page returns an I/O error while no other thread has a
\* call in progress, total_pages on disk is what it was before the call and
\* the cached Metadata page, if there is one, still holds that count.
C24_AllocateAllOrNothing ==
    [][\A t \in Threads :
          (/\ threads[t].op = "allocate_page"
           /\ Running(t)
           /\ threads'[t].pc = "idle"
           /\ threads'[t].status = "io_error"
           /\ threads'[t].isolated) =>
              LET cache == handles'[threads[t].mgr].buffer_pool
              IN  /\ DiskTotalPages(file') = threads[t].before
                  /\ contains_key(cache, METADATA_PAGE_ID) =>
                        /\ read_total_pages_ok(cache[METADATA_PAGE_ID])
                        /\ read_total_pages(cache[METADATA_PAGE_ID])
                              = threads[t].before]_vars

====
